---- MODULE Spec2Model ----
(***************************************************************************)
(* Model of the Rntrc class of src/src/index.ts: the constructor, the      *)
(* checksum, the validity predicate, the accessors and generate.           *)
(*                                                                         *)
(* Strings are sequences of one-character strings.  Time values are whole  *)
(* minutes since 1970-01-01T00:00Z (the source's milliseconds divided by   *)
(* 60000), so that every time value fits the checker's integers; every     *)
(* time value the class computes is a UTC midnight, a whole number of      *)
(* minutes.                                                                *)
(***************************************************************************)
EXTENDS Integers, Sequences, FiniteSets

\* ------------------------------------------------------------------------
\* Bounds of the model

\* random(0, 999) is drawn from 0..MaxRecord and the top of the range
MaxRecord == 1

\* current years of the host clock: 1900..1900+MaxClockYears
MaxClockYears == 4

\* ------------------------------------------------------------------------
\* JavaScript primitives used by the class

DigitChars == <<"0", "1", "2", "3", "4", "5", "6", "7", "8", "9">>

IsDigit(c) == \E i \in 1..10 : DigitChars[i] = c

DigitVal(c) == (CHOOSE i \in 1..10 : DigitChars[i] = c) - 1

\* the remainder operator %: truncated division, sign of the dividend
JsRem(a, n) == IF a >= 0 THEN a % n ELSE -((-a) % n)

RECURSIVE NatToString(_)
NatToString(n) ==
    IF n < 10 THEN <<DigitChars[n + 1]>>
    ELSE NatToString(n \div 10) \o <<DigitChars[(n % 10) + 1]>>

\* String(n) and n.toString() of an integer
NumToString(n) == IF n < 0 THEN <<"-">> \o NatToString(-n) ELSE NatToString(n)

RECURSIVE PadStart(_, _)
PadStart(s, width) ==
    IF Len(s) >= width THEN s ELSE PadStart(<<"0">> \o s, width)

\* s.slice(from, to) with 0-based, end-exclusive indices
Slice(s, from, to) ==
    LET hi == IF to > Len(s) THEN Len(s) ELSE to
    IN  IF from >= hi THEN <<>> ELSE SubSeq(s, from + 1, hi)

\* the values NaN and undefined never take part in arithmetic in the model
NaN == -1000000

RECURSIVE DigitPrefixValue(_, _, _)
DigitPrefixValue(s, i, acc) ==
    IF i > Len(s) \/ ~IsDigit(s[i]) THEN acc
    ELSE DigitPrefixValue(s, i + 1, acc * 10 + DigitVal(s[i]))

\* parseInt(s, 10): the longest prefix of digits after an optional sign
ParseInt(s) ==
    LET neg  == Len(s) >= 1 /\ s[1] = "-"
        from == IF neg THEN 2 ELSE 1
    IN  IF Len(s) < from \/ ~IsDigit(s[from]) THEN NaN
        ELSE IF neg THEN -DigitPrefixValue(s, from, 0)
        ELSE DigitPrefixValue(s, from, 0)

\* /^\d{10}$/.test(s)
TestTenDigits(s) == Len(s) = 10 /\ \A i \in 1..10 : IsDigit(s[i])

\* ------------------------------------------------------------------------
\* Static constants of the class

WEIGHTS == <<-1, 5, 7, 9, 4, 6, 10, 5, 7>>

MILLIS_PER_DAY == 1440

\* ------------------------------------------------------------------------
\* The built-in Date, as far as the class uses it (proleptic Gregorian
\* calendar; tz is the host's offset from UTC in minutes, local = UTC + tz)

\* day number of a civil date, counted from 1970-01-01
DaysFromCivil(y, m, d) ==
    LET yy  == IF m <= 2 THEN y - 1 ELSE y
        era == yy \div 400
        yoe == yy - era * 400
        mp  == IF m > 2 THEN m - 3 ELSE m + 9
        doy == (153 * mp + 2) \div 5 + d - 1
        doe == yoe * 365 + yoe \div 4 - yoe \div 100 + doy
    IN  era * 146097 + doe - 719468

\* the civil date of a day number
CivilFromDays(z) ==
    LET zz  == z + 719468
        era == zz \div 146097
        doe == zz - era * 146097
        yoe == (doe - doe \div 1460 + doe \div 36524 - doe \div 146096) \div 365
        doy == doe - (365 * yoe + yoe \div 4 - yoe \div 100)
        mp  == (5 * doy + 2) \div 153
        d   == doy - (153 * mp + 2) \div 5 + 1
        m   == IF mp < 10 THEN mp + 3 ELSE mp - 9
        y   == yoe + era * 400
    IN  [year |-> IF m <= 2 THEN y + 1 ELSE y, month |-> m, day |-> d]

\* MakeDay of the Date constructor and Date.UTC: the month index and the
\* day of the month overflow into the neighbouring months and years, and a
\* year in 0..99 means 1900 + year
MakeDay(year, monthIndex, date) ==
    LET y == IF 0 <= year /\ year <= 99 THEN 1900 + year ELSE year
    IN  DaysFromCivil(y + (monthIndex \div 12), (monthIndex % 12) + 1, 1)
            + date - 1

\* Date.UTC(year, monthIndex, date) and the time value of the Date made of it
DateUTC(year, monthIndex, date) == MakeDay(year, monthIndex, date) * 1440

\* new Date(year, monthIndex, date): midnight of the host's local time
DateLocal(year, monthIndex, date, tz) ==
    MakeDay(year, monthIndex, date) * 1440 - tz

LocalFields(t, tz) == CivilFromDays((t + tz) \div 1440)

GetFullYear(t, tz) == LocalFields(t, tz).year

GetMonth(t, tz) == LocalFields(t, tz).month - 1

GetDate(t, tz) == LocalFields(t, tz).day

\* ------------------------------------------------------------------------
\* Static constants of the class, continued

BASE_DATE_MS == DateUTC(1899, 11, 31)

MIN_DATE == DateUTC(1900, 0, 1)

MAX_DATE == DateUTC(2173, 9, 14)

\* ------------------------------------------------------------------------
\* checksum, valid and the constructor

RECURSIVE WeightedSum(_, _, _, _)
WeightedSum(digits, i, len, sum) ==
    IF i > len THEN sum
    ELSE WeightedSum(digits, i + 1, len, sum + digits[i] * WEIGHTS[i])

Checksum(rntrc) ==
    LET digits == [i \in 1..Len(rntrc) |-> ParseInt(<<rntrc[i]>>)]
        len    == IF Len(digits) < Len(WEIGHTS) THEN Len(digits) ELSE Len(WEIGHTS)
    IN  IF \E i \in 1..len : digits[i] = NaN THEN <<"N", "a", "N">>
        ELSE LET sum      == WeightedSum(digits, 1, len, 0)
                 checksum == JsRem(JsRem(sum, 11), 10)
             IN  NumToString(IF checksum = 10 THEN 0 ELSE checksum)

\* valid() without the test of the gender digit
ValidWithoutZeroCheck(value) ==
    Len(value) >= 10 /\ <<value[10]>> = Checksum(value)

\* value[8] and value[9] are undefined past the end of a shorter string
Valid(value) ==
    IF Len(value) >= 9 /\ value[9] = "0" THEN FALSE
    ELSE Len(value) >= 10 /\ <<value[10]>> = Checksum(value)

NoError == [name |-> "", message |-> ""]

Thrown(message) ==
    [ok |-> FALSE, value |-> <<>>, ignoreInvalid |-> FALSE,
     error |-> [name |-> "Error", message |-> message]]

\* String(rntrc) of the constructor's argument, a string or a number
ToStringArg(rntrc) ==
    IF rntrc.type = "number" THEN NumToString(rntrc.num) ELSE rntrc.str

\* the constructor with ignoreInvalid skipping the structural test too
ConstructorThrowsOnlyWhenValidating(value, ignoreInvalid) ==
    ~ignoreInvalid /\ (~Valid(value) \/ Len(value) # 10 \/ ~TestTenDigits(value))

ConstructorThrows(value, ignoreInvalid) ==
    \/ (~ignoreInvalid /\ ~Valid(value))
    \/ Len(value) # 10
    \/ ~TestTenDigits(value)

\* the constructor raising a different error for each failed test
NewRntrcDistinctErrors(rntrc, ignoreInvalid) ==
    LET value == ToStringArg(rntrc)
    IN  IF Len(value) # 10 \/ ~TestTenDigits(value) THEN Thrown("Invalid RNTRC format")
        ELSE IF ~ignoreInvalid /\ ~Valid(value) THEN Thrown("Invalid RNTRC checksum")
        ELSE [ok |-> TRUE, value |-> value, ignoreInvalid |-> ignoreInvalid,
              error |-> NoError]

\* new Rntrc(rntrc, ignoreInvalid)
NewRntrc(rntrc, ignoreInvalid) ==
    LET value == ToStringArg(rntrc)
    IN  IF ConstructorThrows(value, ignoreInvalid) THEN Thrown("Invalid RNTRC")
        ELSE [ok |-> TRUE, value |-> value, ignoreInvalid |-> ignoreInvalid,
              error |-> NoError]

StrArg(s) == [type |-> "string", str |-> s, num |-> 0]

NumArg(n) == [type |-> "number", str |-> <<>>, num |-> n]

\* ------------------------------------------------------------------------
\* Accessors of a constructed instance

ToString(value) == value

Birthdate(value) ==
    LET days == ParseInt(Slice(value, 0, 5))
    IN  BASE_DATE_MS + days * MILLIS_PER_DAY

Gender(value) ==
    IF JsRem(DigitVal(value[9]), 2) # 0 THEN "male" ELSE "female"

Male(value) == Gender(value) = "male"

Female(value) == Gender(value) = "female"

AccountingCardNumber(value) == Slice(value, 5, 9)

\* ------------------------------------------------------------------------
\* State: one call of the class's interface, its inputs and what it produced

VARIABLES
    pc,             \* "call": the inputs are chosen; "done": the call has
                    \* returned or thrown; "reconstructed": the caller has
                    \* rebuilt an instance from the generated string
    op,             \* "construct", "generate" or "checksum"
    rntrc,          \* constructor / checksum argument
    ignoreInvalid,  \* constructor argument
    params,         \* GenerateParams; a number field is {} when absent and
                    \* {n} when given, gender is "" when absent
    now,            \* the time new Date() returns inside generate
    tz,             \* the host's time zone offset, minutes east of UTC
    gen,            \* the locals of generate, as far as it ran
    digit,          \* what checksum returned (op = "checksum")
    result,         \* the instance returned, or the error thrown
    again           \* new Rntrc(result.toString())

vars == <<pc, op, rntrc, ignoreInvalid, params, now, tz, gen, digit, result, again>>

NoParams == [day |-> {}, month |-> {}, year |-> {}, gender |-> ""]

NoGen ==
    [stage |-> "", year |-> 0, month |-> 0, day |-> 0, birthdate |-> 0,
     days |-> <<>>, recordNumeric |-> <<>>, genderNumeric |-> 0, rntrc |-> <<>>]

NoResult ==
    [ok |-> FALSE, value |-> <<>>, ignoreInvalid |-> FALSE, error |-> NoError]

\* ------------------------------------------------------------------------
\* generate

\* random(min, max): Math.floor(Math.random() * (max - min + 1)) + min
Random(min, max) == IF max >= min THEN min..max ELSE (max + 1)..min

\* the draws of random(0, 999) the model follows
RandomRecord == {r \in Random(0, 999) : r <= MaxRecord \/ r = 999}

IsNaNNumber(x) == x = {}

Number(x) == CHOOSE n \in x : TRUE

ResolveYear(year) ==
    IF IsNaNNumber(year) THEN Random(1900, GetFullYear(now, tz))
    ELSE {Number(year)}

MaxMonth(year) ==
    IF year = GetFullYear(now, tz) THEN GetMonth(now, tz) + 1
    ELSE GetMonth(DateLocal(year, 11, 31, tz), tz) + 1

ResolveMonth(year, month) ==
    IF IsNaNNumber(month) THEN Random(1, MaxMonth(year)) ELSE {Number(month)}

\* maxDay without the limit of the current day
MaxDayOfMonthOnly(year, month) == GetDate(DateLocal(year, month, 0, tz), tz)

MaxDay(year, month) ==
    IF year = GetFullYear(now, tz) /\ month = GetMonth(now, tz) + 1
    THEN GetDate(now, tz)
    ELSE GetDate(DateLocal(year, month, 0, tz), tz)

ResolveDay(year, month, day) ==
    IF IsNaNNumber(day) THEN Random(1, MaxDay(year, month)) ELSE {Number(day)}

\* the test of lines 203-208: the UTC midnight read back with local getters
DateIsInvalid(year, month, day) ==
    LET testDate == DateUTC(year, month - 1, day)
    IN  \/ GetDate(testDate, tz) # day
        \/ GetMonth(testDate, tz) # month - 1
        \/ GetFullYear(testDate, tz) # year

OutOfRange(birthdate) == birthdate < MIN_DATE \/ birthdate > MAX_DATE

\* the day-offset without padStart
DaysFieldUnpadded(birthdate) ==
    NumToString((birthdate - BASE_DATE_MS) \div MILLIS_PER_DAY)

DaysField(birthdate) ==
    PadStart(NumToString((birthdate - BASE_DATE_MS) \div MILLIS_PER_DAY), 5)

GenderIsKnown(gender) == gender \in {"", "female", "male"}

\* the male branch without its + 1
GenderNumericsMaleEven(gender) ==
    IF gender = "" THEN Random(1, 8)
    ELSE IF gender = "female" THEN {r * 2 + 2 : r \in Random(0, 3)}
    ELSE IF gender = "male" THEN {r * 2 : r \in Random(0, 4)}
    ELSE {}

\* the values genderNumeric can take
GenderNumerics(gender) ==
    IF gender = "" THEN Random(1, 8)
    ELSE IF gender = "female" THEN {r * 2 + 2 : r \in Random(0, 3)}
    ELSE IF gender = "male" THEN {r * 2 + 1 : r \in Random(0, 4)}
    ELSE {}

\* lines 203-243 for the resolved date: every way the call can end
GenerateFrom(year, month, day, gender) ==
    LET resolved  == [NoGen EXCEPT !.year = year, !.month = month, !.day = day]
        birthdate == DateUTC(year, month - 1, day)
        days      == DaysField(birthdate)
    IN  IF DateIsInvalid(year, month, day)
        THEN {[gen    |-> [resolved EXCEPT !.stage = "date"],
               result |-> Thrown("Invalid date")]}
        ELSE IF OutOfRange(birthdate)
        THEN {[gen    |-> [resolved EXCEPT !.stage = "range", !.birthdate = birthdate],
               result |-> Thrown("Birthdate must be between")]}
        ELSE IF ~GenderIsKnown(gender)
        THEN {[gen    |-> [resolved EXCEPT !.stage = "gender", !.birthdate = birthdate,
                                            !.days = days,
                                            !.recordNumeric = PadStart(NumToString(r), 3)],
               result |-> Thrown("Gender must be either")] : r \in RandomRecord}
        ELSE {LET recordNumeric == PadStart(NumToString(r), 3)
                  digits        == days \o recordNumeric \o NumToString(g)
              IN  [gen    |-> [resolved EXCEPT !.stage = "assembled",
                                               !.birthdate = birthdate, !.days = days,
                                               !.recordNumeric = recordNumeric,
                                               !.genderNumeric = g, !.rntrc = digits],
                   result |-> NewRntrc(StrArg(digits \o Checksum(digits)), FALSE)]
              : r \in RandomRecord, g \in GenderNumerics(gender)}

\* Rntrc.generate(params)
Generate ==
    /\ pc = "call" /\ op = "generate"
    /\ \E year \in ResolveYear(params.year) :
       \E month \in ResolveMonth(year, params.month) :
       \E day \in ResolveDay(year, month, params.day) :
       \E out \in GenerateFrom(year, month, day, params.gender) :
          /\ gen' = out.gen
          /\ result' = out.result
    /\ pc' = "done"
    /\ UNCHANGED <<op, rntrc, ignoreInvalid, params, now, tz, digit, again>>

\* new Rntrc(generated.toString()), as the callers of generate do
Reconstruct ==
    /\ pc = "done" /\ op = "generate" /\ result.ok
    /\ again' = NewRntrc(StrArg(ToString(result.value)), FALSE)
    /\ pc' = "reconstructed"
    /\ UNCHANGED <<op, rntrc, ignoreInvalid, params, now, tz, gen, digit, result>>

\* new Rntrc(rntrc, ignoreInvalid)
Construct ==
    /\ pc = "call" /\ op = "construct"
    /\ result' = NewRntrc(rntrc, ignoreInvalid)
    /\ pc' = "done"
    /\ UNCHANGED <<op, rntrc, ignoreInvalid, params, now, tz, gen, digit, again>>

\* Rntrc.checksum(rntrc)
ApplyChecksum ==
    /\ pc = "call" /\ op = "checksum"
    /\ digit' = Checksum(ToStringArg(rntrc))
    /\ pc' = "done"
    /\ UNCHANGED <<op, rntrc, ignoreInvalid, params, now, tz, gen, result, again>>

\* ------------------------------------------------------------------------
\* The inputs the model follows

\* day-offset fields: both ends of the range, the README's example, the
\* offsets with a leading 8 or 9 and four zeros, and one past the epoch
DayOffsets == {0, 1, 12345, 80000, 90000, 99999}

FieldString(offset, record, gender, check) ==
    PadStart(NumToString(offset), 5) \o PadStart(NumToString(record), 3)
        \o <<DigitChars[gender + 1], DigitChars[check + 1]>>

TenDigitStrings ==
    {FieldString(o, r, g, c) : o \in DayOffsets, r \in RandomRecord,
                               g \in 0..9, c \in 0..9}

NineDigitStrings ==
    {Slice(s, 0, 9) : s \in TenDigitStrings}
        \cup {[base EXCEPT ![i] = DigitChars[d + 1]] :
                base \in {NumToString(123456789), NumToString(999999999),
                          PadStart(<<>>, 9)},
                i \in 1..9, d \in 0..9}

MalformedStrings ==
    {<<>>,
     NumToString(123456789),
     NumToString(12345) \o NumToString(678901),
     NumToString(123456789) \o <<"a">>,
     NumToString(1234) \o <<" ">> \o NumToString(67899),
     NumToString(800000001) \o NumToString(-1)}

ConstructorArgs ==
    {StrArg(s) : s \in TenDigitStrings \cup MalformedStrings}
        \cup {NumArg(n) : n \in {1234567899, 1234567890, 123456789,
                                 17, -123456789}}

ChecksumArgs ==
    {StrArg(s) : s \in NineDigitStrings \cup TenDigitStrings}
        \cup {NumArg(n) : n \in {123456789, 1234567899}}

Genders == {"", "female", "male", "other"}

\* host time zones: west of UTC, UTC, east of UTC
TimeZones == {-300, 0, 120}

\* explicit dates: around both ends of the range, a two-digit year, the
\* dates of the tests, dates that do not exist, and the dates whose
\* day-offsets are 80000 and 90000
GivenYears == {85, 1899, 1900, 1985, 2001, 2119, 2146, 2173, 2174}

GivenMonths == {1, 2, 5, 6, 10, 12, 13}

GivenDays == {0, 1, 12, 14, 15, 29, 30, 31, 32}

\* the host clock of the runs with explicit dates: 2024-02-29T12:00Z
ClockOfGiven == DateUTC(2024, 1, 29) + 720

\* the host clocks of the runs that draw the date: noon UTC of the first day
\* of the range, and of a later year 00:30 UTC on 1 March and 23:30 UTC on
\* 31 December (the host's local date is the day before, or the day after,
\* in some of the time zones)
ClockTimes ==
    {DateUTC(1900, 0, 1) + 720,
     DateUTC(1900 + MaxClockYears, 2, 1) + 30,
     DateUTC(1900 + MaxClockYears, 11, 31) + 1410}

CallInit(o) ==
    /\ pc = "call" /\ op = o
    /\ gen = NoGen /\ digit = <<>> /\ result = NoResult /\ again = NoResult

InitConstruct ==
    /\ CallInit("construct")
    /\ rntrc \in ConstructorArgs /\ ignoreInvalid \in BOOLEAN
    /\ params = NoParams /\ now = ClockOfGiven /\ tz = 0

InitChecksum ==
    /\ CallInit("checksum")
    /\ rntrc \in ChecksumArgs /\ ignoreInvalid = FALSE
    /\ params = NoParams /\ now = ClockOfGiven /\ tz = 0

InitGenerate ==
    /\ CallInit("generate")
    /\ rntrc = StrArg(<<>>) /\ ignoreInvalid = FALSE
    /\ params \in [day : {{d} : d \in GivenDays}, month : {{m} : m \in GivenMonths},
                   year : {{y} : y \in GivenYears}, gender : Genders]
    /\ now = ClockOfGiven /\ tz \in TimeZones

InitRandom ==
    /\ CallInit("generate")
    /\ rntrc = StrArg(<<>>) /\ ignoreInvalid = FALSE
    /\ params \in [day : {{}, {29}}, month : {{}, {2}},
                   year : {{}, {1900 + MaxClockYears}}, gender : {""}]
    /\ now \in ClockTimes /\ tz \in TimeZones

Init == InitConstruct \/ InitChecksum \/ InitGenerate

Next == Construct \/ ApplyChecksum \/ Generate \/ Reconstruct

Spec == Init /\ [][Next]_vars

NextRandom == Generate \/ Reconstruct

SpecRandom == InitRandom /\ [][NextRandom]_vars

\* ------------------------------------------------------------------------
\* Vocabulary of the properties

IsTenDecimalDigits(s) ==
    /\ Len(s) = 10
    /\ \A i \in 1..10 : s[i] \in {"0", "1", "2", "3", "4", "5", "6", "7", "8", "9"}

IsLeapYear(y) == (y % 4 = 0 /\ y % 100 # 0) \/ y % 400 = 0

DaysInMonth(y, m) ==
    IF m \in {4, 6, 9, 11} THEN 30
    ELSE IF m = 2 THEN (IF IsLeapYear(y) THEN 29 ELSE 28)
    ELSE 31

DateExists(y, m, d) == m \in 1..12 /\ d \in 1..DaysInMonth(y, m)

\* the calendar order of two dates
NotLater(y1, m1, d1, y2, m2, d2) ==
    \/ y1 < y2
    \/ y1 = y2 /\ m1 < m2
    \/ y1 = y2 /\ m1 = m2 /\ d1 <= d2

\* days from 1899-12-31 to a date, counted on the calendar
RECURSIVE DaysBeforeYear(_)
DaysBeforeYear(y) ==
    IF y <= 1900 THEN 0
    ELSE DaysBeforeYear(y - 1) + (IF IsLeapYear(y - 1) THEN 366 ELSE 365)

RECURSIVE DaysBeforeMonth(_, _)
DaysBeforeMonth(y, m) ==
    IF m <= 1 THEN 0 ELSE DaysBeforeMonth(y, m - 1) + DaysInMonth(y, m - 1)

\* the day-offset of a date from 1900-01-01 on: 1900-01-01 is day 1
DayOffsetOf(y, m, d) == DaysBeforeYear(y) + DaysBeforeMonth(y, m) + d

InDateRange(y, m, d) ==
    /\ NotLater(1900, 1, 1, y, m, d)
    /\ NotLater(y, m, d, 2173, 10, 14)

GenerateDone == op = "generate" /\ pc # "call"

ConstructDone == op = "construct" /\ pc = "done"

AllGiven == params.year # {} /\ params.month # {} /\ params.day # {}

AllUnset == params.year = {} /\ params.month = {} /\ params.day = {}

GivenYear == Number(params.year)

GivenMonth == Number(params.month)

GivenDay == Number(params.day)

\* ------------------------------------------------------------------------
\* C1: for every existing date in [1900-01-01, 2173-10-14], every record
\* number and every gender digit generate can draw, the string generate
\* assembles is exactly 10 decimal digits and passes the validity predicate,
\* the final construction does not fail, and the returned string
\* reconstructs to a valid instance.
C1_GenerateNeverFails ==
    (GenerateDone /\ gen.stage = "assembled") =>
        LET assembled == gen.rntrc \o Checksum(gen.rntrc)
        IN  /\ IsTenDecimalDigits(assembled)
            /\ Valid(assembled)
            /\ result.ok
            /\ Valid(result.value)
            /\ (pc = "reconstructed" => again.ok /\ Valid(again.value))

\* ------------------------------------------------------------------------
\* C2: for every string of 9 decimal digits and every 10-digit string,
\* checksum returns exactly one character, a decimal digit, equal to
\* ((sum of weight[i] * digit[i], i = 0..8) mod 11) mod 10, and the result
\* depends only on the first 9 digits.
C2_ChecksumIsOneDigit ==
    (op = "checksum" /\ pc = "done") =>
        LET s     == ToStringArg(rntrc)
            first == Slice(s, 0, 9)
            sum   == WeightedSum([i \in 1..9 |-> DigitVal(first[i])], 1, 9, 0)
        IN  (Len(s) \in {9, 10} /\ \A i \in 1..Len(s) : IsDigit(s[i])) =>
                /\ Len(digit) = 1
                /\ IsDigit(digit[1])
                /\ digit = <<DigitChars[((sum % 11) % 10) + 1]>>
                /\ digit = Checksum(first)

\* ------------------------------------------------------------------------
\* C3: construct succeeds if and only if the string form of the value is
\* exactly 10 decimal digits and (skipValidation or the validity predicate
\* holds); a value that is not 10 decimal digits is rejected with either
\* flag; on success toString() is the string form of the input.
C3_ConstructAcceptsIff ==
    ConstructDone =>
        LET s == ToStringArg(rntrc)
        IN  /\ result.ok <=> (IsTenDecimalDigits(s) /\ (ignoreInvalid \/ Valid(s)))
            /\ ~IsTenDecimalDigits(s) => ~result.ok
            /\ result.ok => ToString(result.value) = s

\* a string of 10 characters that are not all digits, rejected although
\* validation was skipped
C3_Witness ==
    /\ ConstructDone /\ ignoreInvalid /\ ~result.ok
    /\ Len(ToStringArg(rntrc)) = 10

\* ------------------------------------------------------------------------
\* C4: for every 10-digit string, valid() is true exactly when the digit at
\* index 8 is not '0' and the digit at index 9 equals the checksum of the
\* digits at indices 0..8; a string whose digit 8 is '0' is never valid.
C4_ValidIff ==
    (ConstructDone /\ result.ok) =>
        LET v == result.value
        IN  /\ Valid(v) <=> (v[9] # "0" /\ <<v[10]>> = Checksum(Slice(v, 0, 9)))
            /\ v[9] = "0" => ~Valid(v)

\* an instance whose digit 8 is '0' and whose digit 9 is the checksum of the
\* first nine digits, and valid() is false
C4_Witness ==
    /\ ConstructDone /\ result.ok
    /\ result.value[9] = "0"
    /\ <<result.value[10]>> = Checksum(Slice(result.value, 0, 9))
    /\ ~Valid(result.value)

\* ------------------------------------------------------------------------
\* C5: for an explicit (year, month, day), the day-offset generate writes is
\* exactly 5 digits, lies in 00001..99999, is the number of days from
\* 1899-12-31 to that date, and the returned instance's birthdate() is UTC
\* midnight of exactly that date.
C5_BirthdateRoundTrip ==
    (GenerateDone /\ AllGiven /\ gen.stage \in {"gender", "assembled"}) =>
        LET offset == DayOffsetOf(GivenYear, GivenMonth, GivenDay)
        IN  /\ DateExists(GivenYear, GivenMonth, GivenDay)
            /\ InDateRange(GivenYear, GivenMonth, GivenDay)
            /\ Len(gen.days) = 5
            /\ \A i \in 1..Len(gen.days) : IsDigit(gen.days[i])
            /\ ParseInt(gen.days) \in 1..99999
            /\ ParseInt(gen.days) = offset
            /\ result.ok =>
                  /\ Slice(result.value, 0, 5) = gen.days
                  /\ Birthdate(result.value)
                        = DateUTC(1899, 11, 31) + offset * MILLIS_PER_DAY
                  /\ LocalFields(Birthdate(result.value), 0)
                        = [year |-> GivenYear, month |-> GivenMonth, day |-> GivenDay]

\* the date of the test: 1985-06-15 was given and an instance was returned
C5_Witness ==
    /\ GenerateDone /\ AllGiven /\ result.ok
    /\ GivenYear = 1985 /\ GivenMonth = 6 /\ GivenDay = 15
    /\ Birthdate(result.value) = DateUTC(1985, 5, 15)

\* ------------------------------------------------------------------------
\* C6: the gender digit generate draws is in {1,3,5,7,9} for 'male', in
\* {2,4,6,8} for 'female' and in 1..8 with no gender, never 0; a returned
\* instance carries that digit at index 8 and its gender(), male() and
\* female() agree with the gender asked for.
C6_GenderRoundTrip ==
    (GenerateDone /\ gen.stage = "assembled") =>
        /\ gen.genderNumeric # 0
        /\ params.gender = "male" => gen.genderNumeric \in {1, 3, 5, 7, 9}
        /\ params.gender = "female" => gen.genderNumeric \in {2, 4, 6, 8}
        /\ params.gender = "" => gen.genderNumeric \in 1..8
        /\ result.ok =>
              /\ result.value[9] = DigitChars[gen.genderNumeric + 1]
              /\ params.gender = "male" =>
                    /\ Gender(result.value) = "male"
                    /\ Male(result.value) /\ ~Female(result.value)
              /\ params.gender = "female" =>
                    /\ Gender(result.value) = "female"
                    /\ Female(result.value) /\ ~Male(result.value)

\* a male instance with the largest gender digit was returned
C6_Witness ==
    /\ GenerateDone /\ result.ok /\ params.gender = "male"
    /\ result.value[9] = "9" /\ Male(result.value)

\* ------------------------------------------------------------------------
\* C7: every instance construct accepts with skipValidation false decodes to
\* a birthdate() within [1900-01-01, 2173-10-14].
C7_BirthdateInRange ==
    (ConstructDone /\ ~ignoreInvalid /\ result.ok) =>
        /\ Birthdate(result.value) >= DateUTC(1900, 0, 1)
        /\ Birthdate(result.value) <= DateUTC(2173, 9, 14)

\* ------------------------------------------------------------------------
\* C8: with explicit year, month and day, in every host time zone, generate
\* fails with the invalid-date error exactly when the date does not exist;
\* for an existing date it fails with the range error exactly when the date
\* is outside [1900-01-01, 2173-10-14]; no instance is returned in either
\* case.
C8_DateErrors ==
    (GenerateDone /\ AllGiven) =>
        LET exists == DateExists(GivenYear, GivenMonth, GivenDay)
        IN  /\ result.error.message = "Invalid date" <=> ~exists
            /\ exists =>
                  (result.error.message = "Birthdate must be between"
                      <=> ~InDateRange(GivenYear, GivenMonth, GivenDay))
            /\ result.error.message \in {"Invalid date", "Birthdate must be between"}
                  => ~result.ok /\ result.value = <<>>

\* ------------------------------------------------------------------------
\* C9: construct reports a value that is not 10 decimal digits as a
\* FormatError and a well-formed value that fails the validity predicate as
\* a ValidationError.
C9_DistinctErrorKinds ==
    (ConstructDone /\ ~result.ok) =>
        IF IsTenDecimalDigits(ToStringArg(rntrc))
        THEN result.error.name = "ValidationError"
        ELSE result.error.name = "FormatError"

\* C9, amended: construct reports both failure causes with the same error, a
\* plain Error with the message 'Invalid RNTRC'.
C9_OneErrorForBothCauses ==
    ConstructDone =>
        /\ ~result.ok => result.error = [name |-> "Error", message |-> "Invalid RNTRC"]
        /\ result.ok => result.error = NoError

\* a well-formed 10-digit value failed validation and raised the same error
\* as a malformed one
C9_Witness ==
    /\ ConstructDone /\ ~result.ok /\ ~ignoreInvalid
    /\ IsTenDecimalDigits(ToStringArg(rntrc))
    /\ result.error = NewRntrc(StrArg(<<>>), TRUE).error

\* ------------------------------------------------------------------------
\* C10: with year, month and day all unset, the resolved date exists and is
\* not later than the host's current date: year in 1900..currentYear, month
\* in 1..currentMonth in the current year and 1..12 otherwise, day in
\* 1..today's day in the current month and 1..days of the month otherwise.
C10_ResolvedDateNotInFuture ==
    (GenerateDone /\ AllUnset) =>
        LET today == LocalFields(now, tz)
        IN  /\ gen.year \in 1900..today.year
            /\ gen.month \in 1..(IF gen.year = today.year THEN today.month ELSE 12)
            /\ gen.day \in 1..(IF gen.year = today.year /\ gen.month = today.month
                               THEN today.day
                               ELSE DaysInMonth(gen.year, gen.month))
            /\ DateExists(gen.year, gen.month, gen.day)
            /\ NotLater(gen.year, gen.month, gen.day,
                        today.year, today.month, today.day)

\* the date drawn is the host's current date, the last day of February
C10_Witness ==
    /\ GenerateDone /\ AllUnset
    /\ [year |-> gen.year, month |-> gen.month, day |-> gen.day] = LocalFields(now, tz)
    /\ gen.month = 2 /\ gen.day = DaysInMonth(gen.year, 2)

====
